---- MODULE Spec2Model ----
(***************************************************************************)
(* Model of the interruptable_function crate: the Interruptable trait,    *)
(* the Executor that polls an Interruptable against a deadline             *)
(* (src/src/lib.rs) and the Sort implementor (src/examples/sort.rs).      *)
(*                                                                         *)
(* Source indices are 0-based (idx: usize); TLA+ sequences are 1-based,    *)
(* so the element the source calls data[i] is data[i + 1] here.            *)
(* Durations and Instants are natural numbers of clock ticks.              *)
(***************************************************************************)
EXTENDS Integers, Sequences, FiniteSets, TLC

\* ------------------------------------------------------------------ bounds
MaxLen == 3          \* longest generated Sort input
MaxVal == 2          \* generated Sort inputs hold values 1..MaxVal
MaxDoneAt == 3       \* a counting contract completes at poll 1..MaxDoneAt, or never
MaxBudget == 3       \* deadlines range over 0..MaxBudget ticks
MaxStepDur == 3      \* one poll takes 0..MaxStepDur ticks
MaxZeroPolls == 1    \* only the first MaxZeroPolls polls of a run may take 0 ticks
MaxRuns == 2         \* calls of run() on one Executor
MaxCalls == 2        \* consecutive Executor::partial_result calls

VARIABLES
    func,       \* Executor.func: the state of the Interruptable
    deadline,   \* Executor.deadline
    via,        \* "manual": Executor::new(..) bound by the caller; "macro": exec_interruptable!
    pc,         \* "idle", "poll", "check", "returned"; "panicked": poll() panicked;
                \* "sub_overflow": the Duration subtraction panicked
    now,        \* the monotonic clock (Instant::now())
    start,      \* run's local `start`
    status,     \* the Status the last poll() of the run returned
    result,     \* what run() returned
    polls,      \* poll() calls made by the current run
    runs,       \* run() calls made on this Executor
    snap,       \* the value the last Executor::partial_result call returned
    calls,      \* Executor::partial_result calls since the last poll()
    func0,      \* history: func when the current run started
    durs,       \* history: the duration of each poll of the current run
    trace       \* history: the calls the current run made, in order: "poll"
                \* (self.func.poll()), "elapsed" (start.elapsed()),
                \* "partial_result" (self.func.partial_result())

vars == <<func, deadline, via, pc, now, start, status, result, polls, runs,
          snap, calls, func0, durs, trace>>

\* --------------------------------------------------------------- Option<T>
None == [some |-> FALSE, val |-> <<>>]
Some(v) == [some |-> TRUE, val |-> v]

\* --------------------------------------------------------------- Status<T>
Pending == [tag |-> "Pending", val |-> <<>>]
Done(t) == [tag |-> "Done", val |-> t]
NoStatus == [tag |-> "None", val |-> <<>>]

\* ------------------------------------------------ Result<T, TimeoutError<T>>
NoResult == [tag |-> "None", val |-> <<>>, late |-> 0, partial |-> None]
Ok(t) == [tag |-> "Ok", val |-> t, late |-> 0, partial |-> None]
TimeoutError(late, partial) ==
    [tag |-> "Err", val |-> <<>>, late |-> late, partial |-> partial]
late_by(e) == e.late
partial_result(e) == e.partial

\* ------------------------------------------------------------------- Sort
SortNew(data) == [kind |-> "Sort", data |-> data, idx |-> 0, doneAt |-> 0]

\* Mutant of MinIndex: the .skip(idx) is missing, the minimum is searched
\* in all of data.
MinIndex_NoSkip(data, idx) ==
    CHOOSE i \in 0..(Len(data) - 1) :
        /\ \A j \in 0..(Len(data) - 1) : data[i + 1] <= data[j + 1]
        /\ \A j \in 0..(i - 1) : data[j + 1] > data[i + 1]

\* data.iter().skip(idx).enumerate().min_by_key(..).map(|(i, _)| idx + i):
\* the index of the FIRST minimal element of data[idx..]
MinIndex(data, idx) ==
    CHOOSE i \in idx..(Len(data) - 1) :
        /\ \A j \in idx..(Len(data) - 1) : data[i + 1] <= data[j + 1]
        /\ \A j \in idx..(i - 1) : data[j + 1] > data[i + 1]

\* Mutant of swap: data[a] = data[b] with the old data[a] not written back.
swap_Overwrite(data, a, b) ==
    [k \in 1..Len(data) |-> IF k = a + 1 THEN data[b + 1] ELSE data[k]]

swap(data, a, b) ==
    [k \in 1..Len(data) |->
        IF k = a + 1 THEN data[b + 1]
        ELSE IF k = b + 1 THEN data[a + 1]
        ELSE data[k]]

\* Mutant of is_sorted: equal neighbours count as unsorted.
is_sorted_Strict(data) == \A k \in 1..(Len(data) - 1) : data[k] < data[k + 1]

\* Mutant of is_sorted: the last pair is not compared.
is_sorted_SkipsLast(data) == \A k \in 1..(Len(data) - 2) : data[k] <= data[k + 1]

is_sorted(data) == \A k \in 1..(Len(data) - 1) : data[k] <= data[k + 1]

\* .unwrap() panics when data[idx..] is empty
sorting_step_panics(f) == f.idx >= Len(f.data)

sorting_step(f) ==
    [f EXCEPT !.data = swap(f.data, f.idx, MinIndex(f.data, f.idx)),
              !.idx = f.idx + 1]

SortPoll(f) ==
    IF sorting_step_panics(f)
    THEN [panic |-> TRUE, func |-> f, status |-> NoStatus]
    ELSE LET g == sorting_step(f) IN
         [panic |-> FALSE, func |-> g,
          status |-> IF is_sorted(g.data) THEN Done(g.data) ELSE Pending]

SortPartialResult(f) == Some(f.data)

\* ----------------------------------------------- a generic Interruptable
\* An implementor of the trait that counts its polls: it reports Done at
\* the doneAt-th poll (doneAt = 0: it never reports Done), and has no
\* partial result before its first poll.
CountNew(doneAt) == [kind |-> "Count", data |-> <<>>, idx |-> 0, doneAt |-> doneAt]

CountPoll(f) ==
    LET g == [f EXCEPT !.idx = f.idx + 1] IN
    [panic |-> FALSE, func |-> g,
     status |-> IF g.doneAt # 0 /\ g.idx >= g.doneAt THEN Done(<<g.idx>>) ELSE Pending]

CountPartialResult(f) == IF f.idx = 0 THEN None ELSE Some(<<f.idx>>)

\* ------------------------------------------------- Interruptable dispatch
InterruptablePoll(f) == IF f.kind = "Sort" THEN SortPoll(f) ELSE CountPoll(f)

InterruptablePartialResult(f) ==
    IF f.kind = "Sort" THEN SortPartialResult(f) ELSE CountPartialResult(f)

\* ---------------------------------------------------------------- Executor
\* Mutant of the clock read: the time is measured from the construction of
\* the Executor (the clock's origin here), not from the entry of run.
Elapsed_SinceConstruction(s, t) == t

\* start.elapsed()
Elapsed(s, t) == t - s

\* Mutants of the deadline test: `>` for `>=`, and a test one tick early.
DeadlineMissed_Strict(current_time, dl) == current_time > dl
DeadlineMissed_Early(current_time, dl) == current_time + 1 >= dl

\* current_time >= self.deadline
DeadlineMissed(current_time, dl) == current_time >= dl

\* Mutant of the overrun: the operands are swapped under a saturating
\* subtraction, deadline.saturating_sub(current_time).
LateBy_SwappedSaturating(current_time, dl) ==
    IF dl > current_time THEN dl - current_time ELSE 0

\* current_time - self.deadline; a Duration cannot be negative, the
\* subtraction panics ("overflow when subtracting durations") instead
LateBy(current_time, dl) == current_time - dl

DurationSubPanics(d) == d < 0

\* Mutant of the snapshot: the TimeoutError is built without a partial result.
SnapshotOnTimeout_Dropped(f) == None

\* self.func.partial_result() as stored in the TimeoutError
SnapshotOnTimeout(f) == InterruptablePartialResult(f)

\* Executor::partial_result
ExecutorPartialResult(f) == InterruptablePartialResult(f)

\* Executor::run as a function of the contract, the deadline and the time
\* each poll takes: poll k takes s[k] ticks, and polls beyond the end of s
\* take as long as the last one. t is the elapsed time and n the number of
\* polls made so far.
StepDur(s, k) == IF k <= Len(s) THEN s[k] ELSE s[Len(s)]

RunFuel == MaxBudget + MaxZeroPolls + MaxDoneAt + MaxLen + 2

RECURSIVE RunLoop(_, _, _, _, _)
RunLoop(f, dl, s, t, n) ==
    IF n >= RunFuel THEN [tag |-> "None", late |-> 0, polls |-> n]
    ELSE LET r == InterruptablePoll(f)
             current_time == Elapsed(0, t + StepDur(s, n + 1))
         IN  IF r.panic THEN [tag |-> "Panic", late |-> 0, polls |-> n + 1]
             ELSE IF r.status.tag = "Done"
             THEN [tag |-> "Ok", late |-> 0, polls |-> n + 1]
             ELSE IF DeadlineMissed(current_time, dl)
             THEN [tag |-> "Err", late |-> LateBy(current_time, dl),
                   polls |-> n + 1]
             ELSE RunLoop(r.func, dl, s, current_time, n + 1)

ExecutorRun(f, dl, s) == RunLoop(f, dl, s, 0, 0)

SortInputs ==
    UNION {[1..n -> 1..MaxVal] : n \in 0..MaxLen} \cup {<<5, 3, 4, 1, 2>>}

Contracts ==
    {SortNew(d) : d \in SortInputs} \cup {CountNew(k) : k \in 0..MaxDoneAt}

\* Executor::new(func, deadline), either bound by the caller or inside
\* exec_interruptable!
Init ==
    /\ func \in Contracts
    /\ deadline \in 0..MaxBudget
    /\ via \in {"manual", "macro"}
    /\ pc = "idle"
    /\ now = 0
    /\ start = 0
    /\ status = NoStatus
    /\ result = NoResult
    /\ polls = 0
    /\ runs = 0
    /\ snap = None
    /\ calls = 0
    /\ func0 = func
    /\ durs = <<>>
    /\ trace = <<>>

\* Mutant of Run: a loop that tests the deadline before its first poll, so a
\* budget that is already used up gives a timeout with no poll made.
Run_DeadlineBeforePoll ==
    /\ \/ pc = "idle"
       \/ pc = "returned" /\ via = "manual"
    /\ runs < MaxRuns
    /\ start' = now
    /\ polls' = 0
    /\ runs' = runs + 1
    /\ status' = NoStatus
    /\ func0' = func
    /\ durs' = <<>>
    /\ trace' = <<>>
    /\ IF DeadlineMissed(Elapsed(now, now), deadline)
       THEN /\ result' = TimeoutError(LateBy(Elapsed(now, now), deadline),
                                      SnapshotOnTimeout(func))
            /\ pc' = "returned"
       ELSE /\ result' = NoResult
            /\ pc' = "poll"
    /\ UNCHANGED <<func, deadline, via, now, snap, calls>>

\* Mutant of Run: exec_interruptable! hides a retry, a timed-out run is run
\* once more.
Run_MacroRetries ==
    /\ \/ pc = "idle"
       \/ pc = "returned" /\ via = "manual"
       \/ pc = "returned" /\ via = "macro" /\ result.tag = "Err"
    /\ runs < MaxRuns
    /\ start' = now
    /\ pc' = "poll"
    /\ polls' = 0
    /\ runs' = runs + 1
    /\ status' = NoStatus
    /\ result' = NoResult
    /\ func0' = func
    /\ durs' = <<>>
    /\ trace' = <<>>
    /\ UNCHANGED <<func, deadline, via, now, snap, calls>>

\* Mutant of Run: every run starts from a re-initialised contract (idx = 0).
Run_Fresh ==
    /\ \/ pc = "idle"
       \/ pc = "returned" /\ via = "manual"
    /\ runs < MaxRuns
    /\ start' = now
    /\ pc' = "poll"
    /\ polls' = 0
    /\ runs' = runs + 1
    /\ status' = NoStatus
    /\ result' = NoResult
    /\ func' = [func EXCEPT !.idx = 0]
    /\ func0' = func'
    /\ durs' = <<>>
    /\ trace' = <<>>
    /\ UNCHANGED <<deadline, via, now, snap, calls>>

\* Mutant of Run: the contract is polled once on entry and that Status is
\* thrown away before the loop starts.
Run_PrimingPoll ==
    /\ \/ pc = "idle"
       \/ pc = "returned" /\ via = "manual"
    /\ runs < MaxRuns
    /\ start' = now
    /\ pc' = "poll"
    /\ polls' = 0
    /\ runs' = runs + 1
    /\ status' = NoStatus
    /\ result' = NoResult
    /\ func0' = func
    /\ durs' = <<>>
    /\ trace' = <<>>
    /\ func' = InterruptablePoll(func).func
    /\ UNCHANGED <<deadline, via, now, snap, calls>>

\* run(&mut self) is entered: let start = Instant::now().
\* exec_interruptable! runs a temporary Executor exactly once; an Executor
\* the caller holds can be run again after run has returned.
Run ==
    /\ \/ pc = "idle"
       \/ pc = "returned" /\ via = "manual"
    /\ runs < MaxRuns
    /\ start' = now
    /\ pc' = "poll"
    /\ polls' = 0
    /\ runs' = runs + 1
    /\ status' = NoStatus
    /\ result' = NoResult
    /\ func0' = func
    /\ durs' = <<>>
    /\ trace' = <<>>
    /\ UNCHANGED <<func, deadline, via, now, snap, calls>>

\* Mutant of Poll: the deadline is tested before the Status is matched, so a
\* Done that arrives late is reported as a timeout.
Poll_DeadlineFirst(d) ==
    /\ pc = "poll"
    /\ d = 0 => polls < MaxZeroPolls
    /\ LET r == InterruptablePoll(func) IN
       IF r.panic
       THEN /\ pc' = "panicked"
            /\ UNCHANGED <<func, status, result, polls, now, durs, calls, trace>>
       ELSE /\ func' = r.func
            /\ status' = r.status
            /\ now' = now + d
            /\ polls' = polls + 1
            /\ durs' = Append(durs, d)
            /\ trace' = Append(trace, "poll")
            /\ calls' = 0
            /\ IF DeadlineMissed(Elapsed(start, now + d), deadline)
               THEN /\ result' = TimeoutError(LateBy(Elapsed(start, now + d), deadline),
                                              SnapshotOnTimeout(r.func))
                    /\ pc' = "returned"
               ELSE IF r.status.tag = "Done"
               THEN /\ result' = Ok(r.status.val)
                    /\ pc' = "returned"
               ELSE /\ result' = result
                    /\ pc' = "check"
    /\ UNCHANGED <<deadline, via, start, runs, snap, func0>>

\* Mutant of Poll: the Done arm stores Ok(t) but does not return; the loop
\* goes on to the deadline test and to further polls.
Poll_NoReturn(d) ==
    /\ pc = "poll"
    /\ d = 0 => polls < MaxZeroPolls
    /\ LET r == InterruptablePoll(func) IN
       IF r.panic
       THEN /\ pc' = "panicked"
            /\ UNCHANGED <<func, status, result, polls, now, durs, calls, trace>>
       ELSE /\ func' = r.func
            /\ status' = r.status
            /\ now' = now + d
            /\ polls' = polls + 1
            /\ durs' = Append(durs, d)
            /\ trace' = Append(trace, "poll")
            /\ calls' = 0
            /\ pc' = "check"
            /\ IF r.status.tag = "Done"
               THEN result' = Ok(r.status.val)
               ELSE result' = result
    /\ UNCHANGED <<deadline, via, start, runs, snap, func0>>

\* match self.func.poll() { Status::Done(t) => return Ok(t), Status::Pending => .. }
\* The poll takes d ticks of the clock.
Poll(d) ==
    /\ pc = "poll"
    /\ d = 0 => polls < MaxZeroPolls
    /\ LET r == InterruptablePoll(func) IN
       IF r.panic
       THEN /\ pc' = "panicked"
            /\ UNCHANGED <<func, status, result, polls, now, durs, calls, trace>>
       ELSE /\ func' = r.func
            /\ status' = r.status
            /\ now' = now + d
            /\ polls' = polls + 1
            /\ durs' = Append(durs, d)
            /\ trace' = Append(trace, "poll")
            /\ calls' = 0
            /\ IF r.status.tag = "Done"
               THEN /\ result' = Ok(r.status.val)
                    /\ pc' = "returned"
               ELSE /\ result' = result
                    /\ pc' = "check"
    /\ UNCHANGED <<deadline, via, start, runs, snap, func0>>

\* Mutant of Check: the snapshot is taken in every Pending arm, before the
\* deadline is tested.
Check_EagerSnapshot ==
    /\ pc = "check"
    /\ LET current_time == Elapsed(start, now) IN
       IF DeadlineMissed(current_time, deadline)
       THEN IF DurationSubPanics(LateBy(current_time, deadline))
            THEN /\ pc' = "sub_overflow"
                 /\ result' = result
                 /\ trace' = trace \o <<"elapsed", "partial_result">>
            ELSE /\ result' = TimeoutError(LateBy(current_time, deadline),
                                           SnapshotOnTimeout(func))
                 /\ pc' = "returned"
                 /\ trace' = trace \o <<"elapsed", "partial_result">>
       ELSE /\ pc' = "poll"
            /\ result' = result
            /\ trace' = trace \o <<"elapsed", "partial_result">>
    /\ UNCHANGED <<func, deadline, via, now, start, status, polls, runs,
                   snap, calls, func0, durs>>

\* Status::Pending => { let current_time = start.elapsed();
\*   if current_time >= self.deadline { return Err(TimeoutError(..)) } }
Check ==
    /\ pc = "check"
    /\ LET current_time == Elapsed(start, now) IN
       IF DeadlineMissed(current_time, deadline)
       THEN IF DurationSubPanics(LateBy(current_time, deadline))
            THEN /\ pc' = "sub_overflow"
                 /\ result' = result
                 /\ trace' = Append(trace, "elapsed")
            ELSE /\ result' = TimeoutError(LateBy(current_time, deadline),
                                           SnapshotOnTimeout(func))
                 /\ pc' = "returned"
                 /\ trace' = trace \o <<"elapsed", "partial_result">>
       ELSE /\ pc' = "poll"
            /\ result' = result
            /\ trace' = Append(trace, "elapsed")
    /\ UNCHANGED <<func, deadline, via, now, start, status, polls, runs,
                   snap, calls, func0, durs>>

\* Mutant of PartialResult: taking the snapshot advances the computation.
PartialResult_Advances ==
    /\ via = "manual"
    /\ pc \in {"idle", "returned"}
    /\ calls < MaxCalls
    /\ snap' = ExecutorPartialResult(func)
    /\ calls' = calls + 1
    /\ func' = [func EXCEPT !.idx = @ + 1]
    /\ UNCHANGED <<deadline, via, pc, now, start, status, result, polls,
                   runs, func0, durs, trace>>

\* Executor::partial_result(&self), called by the holder of the Executor
\* while no run is in progress
PartialResult ==
    /\ via = "manual"
    /\ pc \in {"idle", "returned"}
    /\ calls < MaxCalls
    /\ snap' = ExecutorPartialResult(func)
    /\ calls' = calls + 1
    /\ UNCHANGED <<func, deadline, via, pc, now, start, status, result, polls,
                   runs, func0, durs, trace>>

Next ==
    \/ Run
    \/ \E d \in 0..MaxStepDur : Poll(d)
    \/ Check
    \/ PartialResult

Spec == Init /\ [][Next]_vars

\* run's loop is sequential code: once entered, each poll() that returns is
\* followed by the match, and a Pending arm by the deadline test.
FairSpec ==
    /\ Spec
    /\ WF_vars(\E d \in 0..MaxStepDur : Poll(d))
    /\ WF_vars(Check)

TypeOK ==
    /\ func.kind \in {"Sort", "Count"}
    /\ pc \in {"idle", "poll", "check", "returned", "panicked", "sub_overflow"}
    /\ now \in Nat /\ start \in Nat /\ start <= now
    /\ result.tag \in {"None", "Ok", "Err"}
    /\ polls \in Nat /\ runs \in 0..MaxRuns /\ calls \in 0..MaxCalls

\* ------------------------------------------------------------------ claims

\* C1: whenever a poll() of a run returned Done(t), run has returned Ok(t),
\* whatever the budget and the elapsed time are: a step that returned Done is
\* never reported as a timeout.
C1_DoneIsHonoured ==
    status.tag = "Done" =>
        /\ pc = "returned"
        /\ result.tag = "Ok"
        /\ result.val = status.val

\* A run returned Ok although the elapsed time exceeds the budget.
C1_Witness ==
    /\ status.tag = "Done"
    /\ result.tag = "Ok"
    /\ Elapsed(start, now) > deadline

\* C2: after a Pending poll the elapsed time is compared with the budget.
\* A timeout is returned exactly when elapsed >= budget, with
\* late_by = elapsed - budget and the contract's partial_result() after that
\* poll; when elapsed < budget the run goes on to poll again.
C2_DeadlineAfterPending ==
    /\ (pc = "returned" /\ result.tag = "Err") =>
            /\ status.tag = "Pending"
            /\ now - start >= deadline
            /\ late_by(result) = (now - start) - deadline
            /\ partial_result(result) = InterruptablePartialResult(func)
    /\ (pc = "returned" /\ status.tag = "Pending") => result.tag = "Err"
    /\ (pc = "poll" /\ polls > 0) =>
            /\ status.tag = "Pending"
            /\ now - start < deadline
            /\ result.tag = "None"

\* A timeout at elapsed = budget exactly, after an earlier Pending poll that
\* was still within the budget.
C2_Witness ==
    /\ pc = "returned"
    /\ result.tag = "Err"
    /\ deadline > 0
    /\ now - start = deadline
    /\ late_by(result) = 0
    /\ polls >= 2

\* The contract polled directly, with no Executor and no clock, until it
\* reports Done: the outcome, the output and the number of polls made.
Fuel == MaxLen + MaxDoneAt + 6

RECURSIVE StepToCompletion(_, _)
StepToCompletion(f, fuel) ==
    IF fuel = 0 THEN [outcome |-> "never", out |-> <<>>, n |-> 0]
    ELSE LET r == InterruptablePoll(f) IN
         IF r.panic THEN [outcome |-> "panic", out |-> <<>>, n |-> 1]
         ELSE IF r.status.tag = "Done"
         THEN [outcome |-> "done", out |-> r.status.val, n |-> 1]
         ELSE LET rest == StepToCompletion(r.func, fuel - 1) IN
              [rest EXCEPT !.n = @ + 1]

NeverDone(f) == f.kind = "Count" /\ f.doneAt = 0

\* C3: a run of a contract that never returns Done eventually returns a
\* timeout whose partial result is the contract's partial_result() on the
\* state right after the last poll of the run (for the counting contract:
\* the number of polls made so far).
C3_NeverDoneTimesOut ==
    (NeverDone(func) /\ pc = "poll")
        ~> (/\ pc = "returned"
            /\ result.tag = "Err"
            /\ partial_result(result) = InterruptablePartialResult(func)
            /\ partial_result(result) = Some(<<func0.idx + polls>>))

\* A never-completing contract timed out after several polls and the
\* TimeoutError holds the snapshot taken after the last of them.
C3_Witness ==
    /\ NeverDone(func)
    /\ pc = "returned"
    /\ result.tag = "Err"
    /\ polls >= 2
    /\ partial_result(result) = Some(<<func0.idx + polls>>)

\* C4: a run of a contract that reaches Done returns Ok with exactly the
\* output of direct stepping, after the same number of polls; it returns a
\* timeout instead only when an earlier Pending poll ended with
\* elapsed >= budget.
C4_SameAsUntimed ==
    LET ref == StepToCompletion(func0, Fuel) IN
    /\ (pc = "returned" /\ result.tag = "Ok") =>
            /\ ref.outcome = "done"
            /\ result.val = ref.out
            /\ polls = ref.n
    /\ (pc = "returned" /\ result.tag = "Err" /\ ref.outcome = "done") =>
            /\ polls < ref.n
            /\ now - start >= deadline
    /\ (pc \in {"poll", "check"} /\ ref.outcome = "done") => polls <= ref.n
    /\ (pc = "poll" /\ ref.outcome = "done") => polls < ref.n

\* A contract that needs several polls completed within a positive budget.
C4_Witness ==
    /\ pc = "returned"
    /\ result.tag = "Ok"
    /\ polls >= 2
    /\ deadline > 0
    /\ now - start < deadline
    /\ result.val = StepToCompletion(func0, Fuel).out

\* The first poll of a contract in state f returns Pending.
NeedsTwoSteps(f) ==
    LET r == InterruptablePoll(f) IN ~r.panic /\ r.status.tag = "Pending"

\* C5: with budget 0 no timeout is reported before a poll has been made, and
\* a run of a contract that needs 2 or more steps makes at least one poll
\* and then returns a timeout.
C5_ZeroBudgetPollsOnce ==
    /\ []((deadline = 0 /\ result.tag = "Err") => polls >= 1)
    /\ (deadline = 0 /\ pc = "poll" /\ polls = 0 /\ NeedsTwoSteps(func))
            ~> (pc = "returned" /\ result.tag = "Err" /\ polls >= 1)

\* Budget 0, a contract that needs 2 or more steps: one poll, then a timeout.
C5_Witness ==
    /\ deadline = 0
    /\ NeedsTwoSteps(func0)
    /\ pc = "returned"
    /\ result.tag = "Err"
    /\ polls = 1

\* C6: a run produces exactly one result, Ok or Err: none while the loop is
\* running, one once it has returned, and after that no step of the same run
\* polls the contract or changes the result.
C6_OneResultPerRun ==
    /\ [](pc \in {"poll", "check"} => result.tag = "None")
    /\ [](pc = "returned" => result.tag \in {"Ok", "Err"})
    /\ [][(pc = "returned" /\ runs' = runs) =>
            /\ pc' = "returned"
            /\ result' = result
            /\ polls' = polls
            /\ func' = func]_vars
    /\ [][result' # result =>
            \/ result.tag = "None" /\ pc = "poll" /\ pc' = "returned"
            \/ result.tag = "None" /\ pc = "check" /\ pc' = "returned"
            \/ runs' = runs + 1 /\ result' = NoResult]_vars

\* A run has returned a timeout after several polls and the caller has
\* acted on the Executor since.
C6_Witness ==
    /\ pc = "returned"
    /\ result.tag = "Err"
    /\ polls >= 2
    /\ calls >= 1

\* C7 as stated: once a run has ended, the state it left in the contract is
\* never acted on again.
C7_DiscardedAfterRun ==
    [][(pc = "returned" \/ runs >= 2) => func' = func]_vars

\* C7, amended: the Executor keeps the contract when run returns. A later
\* run() on the same Executor starts from exactly the state the finished run
\* left, with the same deadline; a TimeoutError holds the snapshot of that
\* surviving state; only exec_interruptable!, whose Executor is a temporary,
\* admits no later run.
C7_StateSurvivesRun ==
    /\ [][(pc = "returned" /\ pc' = "poll") =>
            /\ via = "manual"
            /\ func' = func
            /\ func0' = func
            /\ deadline' = deadline]_vars
    /\ []((pc = "returned" /\ result.tag = "Err") =>
            partial_result(result) = InterruptablePartialResult(func))
    /\ [](via = "macro" => runs <= 1)

\* A second run has polled the state the first run left behind.
C7_Witness ==
    /\ runs = 2
    /\ func0.idx >= 1
    /\ polls >= 1
    /\ func.idx = func0.idx + polls

\* The step schedules that are pointwise no slower than s.
RECURSIVE NoSlower(_)
NoSlower(s) ==
    IF s = <<>> THEN {<<>>}
    ELSE {Append(p, e) : p \in NoSlower(SubSeq(s, 1, Len(s) - 1)),
                         e \in 0..s[Len(s)]}

Uniform(s) == s # <<>> /\ \A k \in 1..Len(s) : s[k] = s[1]

\* C8 as stated, in its weakest reading: with the budget and a
\* never-completing contract fixed, a run whose every step takes d ticks
\* reports an overrun at least as large as the run whose every step takes
\* e < d ticks.
C8_SlowerStepLargerOverrun ==
    (pc = "returned" /\ result.tag = "Err" /\ NeverDone(func0) /\ Uniform(durs)) =>
        \A e \in 1..(durs[1] - 1) :
            LET r == ExecutorRun(func0, deadline, <<e>>) IN
            r.tag = "Err" /\ r.late <= late_by(result)

\* C8, amended: the overrun is elapsed - budget at the poll that ends the
\* run. A run whose steps are no slower never times out after fewer polls;
\* when it times out after the same number of polls its overrun is no larger,
\* and smaller as soon as one of its steps is faster. When the slower run
\* needs fewer polls its overrun can be the smaller one.
C8_SlowerStepSamePolls ==
    (pc = "returned" /\ result.tag = "Err" /\ NeverDone(func0)) =>
        /\ ExecutorRun(func0, deadline, durs) =
               [tag |-> "Err", late |-> late_by(result), polls |-> polls]
        /\ \A s \in NoSlower(durs) :
               LET r == ExecutorRun(func0, deadline, s) IN
               /\ r.tag = "Err" => r.polls >= polls
               /\ (r.tag = "Err" /\ r.polls = polls) =>
                      /\ r.late <= late_by(result)
                      /\ s # durs => r.late < late_by(result)

\* A never-completing contract timed out after several polls, and a faster
\* schedule times out after as many polls with a smaller overrun.
C8_Witness ==
    /\ pc = "returned"
    /\ result.tag = "Err"
    /\ NeverDone(func0)
    /\ polls >= 2
    /\ \E s \in NoSlower(durs) :
           LET r == ExecutorRun(func0, deadline, s) IN
           /\ s # durs
           /\ r.tag = "Err"
           /\ r.polls = polls
           /\ r.late < late_by(result)

\* C9: the Duration subtraction never underflows, every TimeoutError has an
\* overrun >= 0 and comes from a Pending poll that ended with
\* elapsed >= budget; an Ok comes from a Done poll.
C9_OverrunNonNegative ==
    /\ pc # "sub_overflow"
    /\ result.tag = "Err" =>
            /\ late_by(result) >= 0
            /\ pc = "returned"
            /\ status.tag = "Pending"
            /\ now - start >= deadline
    /\ result.tag = "Ok" => status.tag = "Done"

\* A timeout with a positive overrun under a positive budget.
C9_Witness ==
    /\ result.tag = "Err"
    /\ deadline > 0
    /\ late_by(result) > 0

\* C10: Executor::partial_result leaves the contract unchanged and returns
\* the contract's partial_result(); consecutive calls with no poll in between
\* return equal values, before any poll as well as after a run has returned,
\* where the value equals the partial result of the TimeoutError.
C10_SnapshotIsPure ==
    /\ [][calls' = calls + 1 =>
            /\ func' = func
            /\ snap' = InterruptablePartialResult(func)
            /\ (calls >= 1 => snap' = snap)]_vars
    /\ [](calls >= 1 => snap = InterruptablePartialResult(func))
    /\ []((calls >= 1 /\ result.tag = "Err") => snap = partial_result(result))

\* Two consecutive snapshots of a Sort after its run timed out.
C10_Witness ==
    /\ func.kind = "Sort"
    /\ pc = "returned"
    /\ result.tag = "Err"
    /\ calls >= 2
    /\ snap = Some(func.data)

\* The contract after k direct polls, with no Executor and no clock.
RECURSIVE StepN(_, _)
StepN(f, k) == IF k = 0 THEN f ELSE StepN(InterruptablePoll(f).func, k - 1)

\* The Status of the j-th direct poll of a contract in state f.
PollStatus(f, j) == InterruptablePoll(StepN(f, j - 1)).status

\* The time the first j polls of a schedule take.
RECURSIVE SumTo(_, _)
SumTo(s, j) == IF j = 0 THEN 0 ELSE SumTo(s, j - 1) + s[j]

\* The calls of a run that returned after n polls: each poll before the last
\* is followed by one clock read; the last poll is followed by nothing when
\* it returned Done, and by one clock read and one partial_result() when the
\* run timed out.
RECURSIVE PendingRounds(_)
PendingRounds(n) ==
    IF n = 0 THEN <<>> ELSE PendingRounds(n - 1) \o <<"poll", "elapsed">>

ExpectedTrace(n, tag) ==
    IF tag = "Ok" THEN Append(PendingRounds(n - 1), "poll")
    ELSE Append(PendingRounds(n), "partial_result")

\* C11: a run made through exec_interruptable!(func, duration) is the run
\* Executor::new(func, duration).run() makes for the same contract, budget
\* and step durations: the same result after the same polls, the same
\* sequence of poll / clock-read / partial_result calls, the deadline it was
\* given, and nothing else: no second run, no further call on the Executor.
C11_MacroIsNewThenRun ==
    /\ [][deadline' = deadline /\ via' = via]_vars
    /\ [](via = "macro" => (runs <= 1 /\ calls = 0 /\ snap = None))
    /\ []((via = "macro" /\ pc = "returned") =>
            LET r == ExecutorRun(func0, deadline, durs) IN
            /\ result.tag = r.tag
            /\ late_by(result) = r.late
            /\ polls = r.polls
            /\ trace = ExpectedTrace(r.polls, r.tag)
            /\ result.tag = "Ok" => result.val = PollStatus(func0, r.polls).val
            /\ result.tag = "Err" =>
                   partial_result(result) =
                       InterruptablePartialResult(StepN(func0, r.polls)))

\* A run made through exec_interruptable! timed out after several polls.
C11_Witness ==
    /\ via = "macro"
    /\ pc = "returned"
    /\ result.tag = "Err"
    /\ polls >= 2
    /\ trace = <<"poll", "elapsed", "poll", "elapsed", "partial_result">>

\* Every element stands before no smaller one.
Ascending(s) == \A i \in 1..Len(s) : \A j \in i..Len(s) : s[i] <= s[j]

\* Two sequences hold the same elements, each as often.
Occurrences(s, v) == Cardinality({i \in 1..Len(s) : s[i] = v})

SameElements(a, b) ==
    /\ Len(a) = Len(b)
    /\ \A i \in 1..Len(a) : Occurrences(a, a[i]) = Occurrences(b, a[i])

\* C12: a run of Sort returns a timeout only when a Pending poll ended with
\* the budget reached; otherwise it returns Ok with the data the run started
\* from in ascending order, the same elements each as often. For the input
\* [5,3,4,1,2] the output is [1,2,3,4,5].
C12_SortReturnsSorted ==
    (func0.kind = "Sort" /\ pc = "returned") =>
        /\ result.tag = "Err" => now - start >= deadline
        /\ result.tag = "Ok" =>
               /\ Ascending(result.val)
               /\ SameElements(result.val, func0.data)
               /\ func0.data = <<5, 3, 4, 1, 2>> =>
                      result.val = <<1, 2, 3, 4, 5>>

\* The run over [5,3,4,1,2] has returned Ok([1,2,3,4,5]) at its fourth poll,
\* the three Pending polls before it having ended within the budget.
C12_Witness ==
    /\ func0 = SortNew(<<5, 3, 4, 1, 2>>)
    /\ pc = "returned"
    /\ result = Ok(<<1, 2, 3, 4, 5>>)
    /\ polls = 4
    /\ SumTo(durs, 3) < deadline

\* C13: when a run of Sort times out after k polls (k counted from a fresh
\* Sort; a later run on the same Executor continues the count), the partial
\* output is exactly the data direct stepping leaves after those polls: its
\* first k positions hold the k smallest elements in ascending order, and it
\* holds the elements of the input. For [5,3,4,1,2] and k = 2 it is
\* [1,2,4,5,3].
C13_SortPartialPrefix ==
    (func0.kind = "Sort" /\ pc = "returned" /\ result.tag = "Err") =>
        LET p == partial_result(result)
            k == func0.idx + polls
        IN  /\ p.some
            /\ p.val = StepN(func0, polls).data
            /\ k <= Len(p.val)
            /\ \A i \in 1..k : \A j \in i..Len(p.val) : p.val[i] <= p.val[j]
            /\ SameElements(p.val, func0.data)
            /\ (func0 = SortNew(<<5, 3, 4, 1, 2>>) /\ polls = 2) =>
                   p.val = <<1, 2, 4, 5, 3>>

\* The run over [5,3,4,1,2] timed out after two polls with [1,2,4,5,3].
C13_Witness ==
    /\ func0 = SortNew(<<5, 3, 4, 1, 2>>)
    /\ pc = "returned"
    /\ result.tag = "Err"
    /\ polls = 2
    /\ partial_result(result) = Some(<<1, 2, 4, 5, 3>>)

\* C14: time passing only while a poll executes, the overrun of a timeout is
\* the time of the run's polls minus the budget and is at most the duration
\* of the last poll of the run: before that poll the elapsed time was below
\* the budget, or it was the first poll.
C14_OverrunWithinLastStep ==
    (pc = "returned" /\ result.tag = "Err") =>
        /\ Len(durs) = polls
        /\ late_by(result) = SumTo(durs, polls) - deadline
        /\ late_by(result) <= durs[polls]
        /\ polls = 1 \/ SumTo(durs, polls - 1) < deadline
        /\ \A j \in 1..(polls - 1) : SumTo(durs, j) < deadline

\* A timeout after several polls whose overrun is positive and smaller than
\* the last poll's duration.
C14_Witness ==
    /\ pc = "returned"
    /\ result.tag = "Err"
    /\ polls >= 2
    /\ late_by(result) > 0
    /\ late_by(result) < durs[polls]

\* C15: a run makes exactly k polls, k being the first poll that returned
\* Done or ended with elapsed >= budget. The clock is read once after each
\* Pending poll and never after a Done poll; partial_result() is called once
\* on the timeout path and never otherwise.
C15_PollsClockReadsSnapshots ==
    /\ pc \in {"poll", "check", "returned"} => Occurrences(trace, "poll") = polls
    /\ pc = "poll" => trace = PendingRounds(polls)
    /\ pc = "check" => trace = Append(PendingRounds(polls - 1), "poll")
    /\ pc = "returned" =>
           /\ trace = ExpectedTrace(polls, result.tag)
           /\ \A j \in 1..(polls - 1) :
                  /\ PollStatus(func0, j).tag = "Pending"
                  /\ SumTo(durs, j) < deadline
           /\ result.tag = "Ok" =>
                  /\ PollStatus(func0, polls).tag = "Done"
                  /\ Occurrences(trace, "elapsed") = polls - 1
                  /\ Occurrences(trace, "partial_result") = 0
           /\ result.tag = "Err" =>
                  /\ PollStatus(func0, polls).tag = "Pending"
                  /\ SumTo(durs, polls) >= deadline
                  /\ Occurrences(trace, "elapsed") = polls
                  /\ Occurrences(trace, "partial_result") = 1
                  /\ trace[Len(trace)] = "partial_result"

\* A run returned Ok at its third poll: three polls, two clock reads, no
\* snapshot.
C15_Witness ==
    /\ pc = "returned"
    /\ result.tag = "Ok"
    /\ polls = 3
    /\ trace = <<"poll", "elapsed", "poll", "elapsed", "poll">>

\* max(1, n - 1)
MaxSortPolls(n) == IF n - 1 > 1 THEN n - 1 ELSE 1

\* C16: in the run of a fresh Sort over a non-empty input of length n no
\* poll panics: every poll starts with idx < n, idx counts the polls made,
\* and Done is returned after at most max(1, n - 1) polls, so Sort is never
\* polled with idx = n.
C16_SortPollsInBounds ==
    (func0.kind = "Sort" /\ func0.idx = 0 /\ Len(func0.data) >= 1) =>
        LET n == Len(func0.data) IN
        /\ pc # "panicked"
        /\ Len(func.data) = n
        /\ func.idx = polls
        /\ polls <= MaxSortPolls(n)
        /\ pc = "poll" => (func.idx < n /\ ~sorting_step_panics(func))
        /\ pc \in {"poll", "check"} => polls < MaxSortPolls(n)
        /\ (pc = "returned" /\ polls = MaxSortPolls(n)) => result.tag = "Ok"

\* The run of a fresh Sort over 3 or more elements returned Ok at poll n - 1.
C16_Witness ==
    /\ func0.kind = "Sort"
    /\ func0.idx = 0
    /\ Len(func0.data) >= 3
    /\ pc = "returned"
    /\ result.tag = "Ok"
    /\ polls = Len(func0.data) - 1

\* C17: the data of a Sort holds the same elements, each as often, before
\* and after every step of the program, in every run; so does the data a run
\* starts from, and every Ok output and every partial output of a timeout is
\* such a permutation.
C17_SortDataIsPermutation ==
    /\ [][func.kind = "Sort" =>
            /\ func'.kind = "Sort"
            /\ SameElements(func'.data, func.data)
            /\ SameElements(func0'.data, func0.data)]_vars
    /\ [](func.kind = "Sort" => SameElements(func.data, func0.data))
    /\ []((func.kind = "Sort" /\ result.tag = "Ok") =>
            SameElements(result.val, func0.data))
    /\ []((func.kind = "Sort" /\ result.tag = "Err") =>
            /\ partial_result(result).some
            /\ SameElements(partial_result(result).val, func0.data))

\* The run over [5,3,4,1,2] timed out after three polls with a rearranged
\* partial output.
C17_Witness ==
    /\ func0 = SortNew(<<5, 3, 4, 1, 2>>)
    /\ pc = "returned"
    /\ result.tag = "Err"
    /\ polls = 3
    /\ partial_result(result) = Some(<<1, 2, 3, 5, 4>>)

====
